---- MODULE Spec2Model ----
(***************************************************************************)
(* Model of the realtime scraper client:                                   *)
(*   - the useWebSocket hook (frontend/src/hooks/useWebSocket.js): one     *)
(*     logical channel, reconnect with exponential backoff, the inbound    *)
(*     message list;                                                       *)
(*   - the Home component (frontend/src/App.js): the effect that applies   *)
(*     the latest inbound message to the tracked job and the result list,  *)
(*     and the two submit handlers that start tracking a job.              *)
(* Browser objects (WebSocket instances, timers) are modelled by their     *)
(* observable life cycle; every handler of the source is one action.       *)
(***************************************************************************)
EXTENDS Integers, Sequences, FiniteSets, TLC

\* ---------------------------------------------------------------- bounds
\* WebSocket objects the hook may create in one run.
MaxSockets == 6
\* Changes of the url prop in one run.
MaxUrlChanges == 1
\* Inbound messages kept in the hook's list in one run.
MaxMsgs == 2
\* Submissions (single or bulk) made in one run.
MaxSubmits == 2
\* WebSocket objects the hook may create in one run of the specification
\* that adds the inbound frames and the hook's two functions.
MaxHookSockets == 3
\* Calls of sendMessage in one run.
MaxSends == 2
\* WebSocket objects the hook may create in one run of the deep
\* specification (enough for two retry chains to pass the ceiling).
MaxDeepSockets == 8

\* ------------------------------------------------------ program constants
\* useWebSocket.js:10
maxReconnectAttempts == 5
\* useWebSocket.js:33, the factor of the backoff
BaseDelayMs == 1000
\* useWebSocket.js:32 and :64, the close code of a deliberate close
NormalClosure == 1000

\* event.code of a close event: 1000, or what a browser reports otherwise,
\* here 1001 (going away) and 1006 (abnormal closure, no close frame seen)
CloseCodes == {NormalClosure, 1001, 1006}

\* The url prop of the hook: absent, two well-formed addresses, and one the
\* WebSocket constructor rejects (it throws a SyntaxError).
NoUrl == ""
BadUrl == "http//bad"
GoodUrls == {"ws://a/ws", "ws://b/ws"}
Urls == {NoUrl, BadUrl} \cup GoodUrls
\* The url of the first render.  The two well-formed addresses are
\* interchangeable, so the first render takes one of them.
FirstUrls == {NoUrl, BadUrl, "ws://a/ws"}

SockIds == 1..MaxSockets
\* ws.current = null, reconnectTimeout.current = null
Null == 0

\* Life cycle of one WebSocket object.  "aborting": close() was called while
\* CONNECTING; "closing": close() was called while OPEN; "errored": the error
\* event was delivered and the close event is still to come.  All three read
\* as readyState CLOSING/CLOSED to the program.
SockStates == {"none", "connecting", "open", "closing", "aborting", "errored", "closed"}
\* readyState CONNECTING or OPEN
Live == {"connecting", "open"}

\* ------------------------------------------------------ the Home component
\* Job ids the submission endpoint hands out, in the order of submission.
JobNames == <<"J1", "J2", "J3">>
NoId == ""
\* currentJob = null
NoJob == [id |-> NoId, type |-> "", status |-> "", progress |-> 0,
          completed |-> 0, failed |-> 0, total |-> 0]

\* A wire field that is missing from the JSON object (undefined once parsed).
Absent == -1
\* JavaScript's falsiness of a numeric field: undefined and 0 make `x || y` take y
Falsy(x) == x = Absent \/ x = 0

\* Result payloads (the `data` of url_complete): the url the payload itself
\* carries (NoId when it carries none) and a version tag standing for the rest
\* of the scraped fields.  NoData is `data: null`.
NoData == [url |-> NoId, v |-> "null"]
Payloads == {[url |-> "a.com", v |-> "v1"], [url |-> "a.com", v |-> "v2"],
             [url |-> NoId, v |-> "v1"], [url |-> "b.com", v |-> "v1"]}

\* Raw inbound frames.  syntax = "object": the text of a JSON object with the
\* fields shown; "null": the text `null`; "garbage": not JSON at all.
PU(j, p, c, f, t) == [syntax |-> "object", type |-> "progress_update", job_id |-> j,
                      progress |-> p, completed |-> c, failed |-> f, total |-> t]
UC(j, ok, u, d) == [syntax |-> "object", type |-> "url_complete", job_id |-> j,
                    success |-> ok, url |-> u, data |-> d]
JC(j, c, f, t) == [syntax |-> "object", type |-> "job_complete", job_id |-> j,
                   completed |-> c, failed |-> f, total |-> t]
JE(j) == [syntax |-> "object", type |-> "job_error", job_id |-> j]
Unknown == [syntax |-> "object", type |-> "ping"]
JsonNull == [syntax |-> "null"]
Garbage == [syntax |-> "garbage"]
NoMsg == [syntax |-> "none"]

ProgressFrames == {PU("J1", 40, 2, 0, Absent), PU("J1", 30, 3, 0, 6)}
UrlFrames == {UC("J1", TRUE, "a.com", d) : d \in {p \in Payloads : p.url # "b.com"}}
              \cup {UC("J1", TRUE, "b.com", [url |-> "b.com", v |-> "v1"]),
                    UC("J1", FALSE, "a.com", [url |-> "a.com", v |-> "v1"]),
                    UC("J1", TRUE, "a.com", NoData)}
CompleteFrames == {JC("J1", 5, 1, 6), JC("J1", 5, 1, Absent)}
ErrorFrames == {JE("J1")}
Keys == {"a.com", "b.com"}
Inbound == ProgressFrames \cup UrlFrames \cup CompleteFrames \cup ErrorFrames
             \cup {Unknown, JsonNull, Garbage}

VARIABLES
  \* ---- the hook instance
  phase,              \* "new" | "mounted" | "unmounted": the [url] effect's life
  url,                \* the url prop of the last committed render
  ws,                 \* ws.current: a socket id or Null
  sock,               \* socket id -> life-cycle state
  pending,            \* timers set and neither fired nor cleared: {[id, delay]}
  reconnectTimeout,   \* reconnectTimeout.current: a timer id or Null
  reconnectAttempts,  \* reconnectAttempts.current
  isConnected,        \* useState
  error,              \* useState: "" stands for null
  messages,           \* useState: the inbound raw messages
  \* ---- the Home component
  currentJob,         \* useState: the tracked job or NoJob
  jobObject,          \* which object currentJob holds: every setCurrentJob stores
                      \* a new one, told from the one before by this bit
  jobResults,         \* useState: the list of result payloads
  isLoading,          \* useState
  effectDirty,        \* a dependency of the message effect changed since it last ran
  inflight,           \* submissions awaiting the HTTP response: {[kind, n]}
  submits,            \* submissions made so far
  \* ---- history (not program state)
  changes,            \* number of url changes so far
  delays,             \* delays scheduled since the last onopen, kept until the
                      \* effect's first cleanup (empty from then on)
  lastLoss,           \* the last close event handled: [code, attempt, delay]
  lastApplied,        \* the frame the message effect handled last on this result list
  lastFor,            \* item key -> payload of the last successful url_complete applied
  unread,             \* no run of the message effect has read the last message yet
  skipped,            \* since the effect last ran, a message was appended while
                      \* the one before it was unread
  stale,              \* since the effect last ran and the last message arrived,
                      \* a new job began to be tracked
  wiped,              \* numbers of the submissions in flight that emptied the
                      \* non-empty result list of a tracked job
  \* ---- environment
  lostComplete,       \* ids of the jobs the back end finished (its status endpoint
                      \* reports them completed) whose job_complete push was dropped
  sent,               \* what ws.send() was given, in order: <<[to, data]>>
  warned              \* number of console.warn calls made by sendMessage

connVars == <<phase, url, ws, sock, pending, reconnectTimeout,
              reconnectAttempts, isConnected, error, messages>>
jobVars == <<currentJob, jobObject, jobResults, isLoading, effectDirty,
             inflight, submits>>
histVars == <<changes, delays, lastLoss>>

\* The effect cleanup (useWebSocket.js:59-66) has run at least once.
torn == changes > 0 \/ phase = "unmounted"
jobHist == <<lastApplied, lastFor, wiped>>
readHist == <<unread, skipped, stale>>
envVars == <<lostComplete>>
outVars == <<sent, warned>>
vars == <<connVars, histVars, jobVars, jobHist, readHist, envVars, outVars>>

NoLoss == [code |-> 0, attempt |-> 0, delay |-> 0]

RECURSIVE Pow2(_)
\* Math.pow(2, n) for the non-negative integers the counter takes
Pow2(n) == IF n = 0 THEN 1 ELSE 2 * Pow2(n - 1)

\* The id the next `new WebSocket(url)` gets; MaxSockets + 1 when none is left.
NewSock == Cardinality({s \in DOMAIN sock : sock[s] # "none"}) + 1

\* The backoff read after the increment instead of before it.
BackoffDelayAfterIncrement(attempt) == Pow2(attempt + 1) * BaseDelayMs

\* useWebSocket.js:33
BackoffDelay(attempt) == Pow2(attempt) * BaseDelayMs

\* The retry test without the look at the close code.
ShouldReconnectAnyCode(code, attempt) == attempt < maxReconnectAttempts

\* useWebSocket.js:32
ShouldReconnect(code, attempt) ==
  code # NormalClosure /\ attempt < maxReconnectAttempts

\* useWebSocket.js:12-52, connect() as called with the closure's url u on
\* the socket table sk.  `new WebSocket(u)` throws for a malformed u: the
\* catch sets the error and ws.current keeps its old value.  (A retry runs
\* the connect() of the render that made the lost socket, so its url is one
\* the constructor accepted before.)
connect(u, sk) ==
  IF u = BadUrl
    THEN /\ ws' = ws
         /\ sock' = sk
         /\ error' = "Failed to connect"
    ELSE /\ NewSock \in DOMAIN sock
         /\ ws' = NewSock
         /\ sock' = [sk EXCEPT ![NewSock] = "connecting"]
         /\ error' = error

\* WebSocket.close(1000, ...) on socket s: starts the closing handshake of an
\* open socket, fails a connecting one, and does nothing otherwise.
CloseCall(sk, s) ==
  IF s = Null THEN sk
  ELSE IF sk[s] = "open" THEN [sk EXCEPT ![s] = "closing"]
  ELSE IF sk[s] = "connecting" THEN [sk EXCEPT ![s] = "aborting"]
  ELSE sk

\* clearTimeout(reconnectTimeout.current): useWebSocket.js:60-62
ClearTimer(p, h) == {t \in p : t.id # h}

\* The state after construction, with room for the sockets of ids.
InitWith(ids) ==
  /\ phase = "new"
  /\ url \in FirstUrls
  /\ ws = Null
  /\ sock = [s \in ids |-> "none"]
  /\ pending = {}
  /\ reconnectTimeout = Null
  /\ reconnectAttempts = 0
  /\ isConnected = FALSE
  /\ error = ""
  /\ messages = <<>>
  /\ changes = 0
  /\ delays = <<>>
  /\ lastLoss = NoLoss
  /\ currentJob = NoJob
  /\ jobObject = 0
  /\ jobResults = <<>>
  /\ isLoading = FALSE
  /\ effectDirty = FALSE
  /\ inflight = {}
  /\ submits = 0
  /\ lastApplied = NoMsg
  /\ lastFor = [k \in Keys |-> NoData]
  /\ unread = FALSE
  /\ skipped = FALSE
  /\ stale = FALSE
  /\ wiped = {}
  /\ lostComplete = {}
  /\ sent = <<>>
  /\ warned = 0

Init == InitWith(SockIds)

\* useWebSocket.js:54-57, the effect body on mount
Mount ==
  /\ UNCHANGED <<jobVars, jobHist, readHist, envVars, outVars>>
  /\ phase = "new"
  /\ phase' = "mounted"
  /\ IF url # NoUrl
       THEN connect(url, sock)
       ELSE UNCHANGED <<ws, sock, error>>
  /\ UNCHANGED <<url, pending, reconnectTimeout, reconnectAttempts,
                 isConnected, messages, histVars>>

\* useWebSocket.js:59-66 then :55-57, the cleanup of the old url's effect
\* followed by the effect of the new url (one commit)
UrlChange(u) ==
  /\ UNCHANGED <<jobVars, jobHist, readHist, envVars, outVars>>
  /\ phase = "mounted"
  /\ u # url
  /\ changes < MaxUrlChanges
  /\ changes' = changes + 1
  /\ url' = u
  /\ pending' = ClearTimer(pending, reconnectTimeout)
  /\ IF u # NoUrl
       THEN connect(u, CloseCall(sock, ws))
       ELSE /\ sock' = CloseCall(sock, ws)
            /\ UNCHANGED <<ws, error>>
  /\ delays' = <<>>
  /\ UNCHANGED <<phase, reconnectTimeout, reconnectAttempts, isConnected,
                 messages, lastLoss>>

\* useWebSocket.js:59-66, the cleanup on unmount
Unmount ==
  /\ UNCHANGED <<jobVars, jobHist, readHist, envVars, outVars>>
  /\ phase = "mounted"
  /\ phase' = "unmounted"
  /\ pending' = ClearTimer(pending, reconnectTimeout)
  /\ sock' = CloseCall(sock, ws)
  /\ delays' = <<>>
  /\ UNCHANGED <<url, ws, reconnectTimeout, reconnectAttempts,
                 isConnected, error, messages, changes, lastLoss>>

\* useWebSocket.js:16-21, ws.onopen of socket s
onopen(s) ==
  /\ UNCHANGED <<jobVars, jobHist, readHist, envVars, outVars>>
  /\ sock[s] = "connecting"
  /\ sock' = [sock EXCEPT ![s] = "open"]
  /\ isConnected' = TRUE
  /\ error' = ""
  /\ reconnectAttempts' = 0
  /\ delays' = <<>>
  /\ UNCHANGED <<phase, url, ws, pending, reconnectTimeout,
                 messages, changes, lastLoss>>

\* An error handler that also resets the retry counter.
onerrorResetsAttempts(s) ==
  /\ UNCHANGED <<jobVars, jobHist, readHist, envVars, outVars>>
  /\ sock[s] \in {"connecting", "open", "closing", "aborting"}
  /\ sock' = [sock EXCEPT ![s] = "errored"]
  /\ error' = "Connection error"
  /\ reconnectAttempts' = 0
  /\ UNCHANGED <<phase, url, ws, pending, reconnectTimeout,
                 isConnected, messages, histVars>>

\* useWebSocket.js:43-46, ws.onerror of socket s; the browser closes the
\* socket after the error event.  A connection that fails before it opened
\* (refused, or close() called while CONNECTING) always reports the error
\* event before its close event.
onerror(s) ==
  /\ UNCHANGED <<jobVars, jobHist, readHist, envVars, outVars>>
  /\ sock[s] \in {"connecting", "open", "closing", "aborting"}
  /\ sock' = [sock EXCEPT ![s] = "errored"]
  /\ error' = "Connection error"
  /\ UNCHANGED <<phase, url, ws, pending, reconnectTimeout,
                 reconnectAttempts, isConnected, messages, histVars>>

\* The close codes socket s can report: one that failed reports 1006; an
\* open one whatever the peer or the network produced; one the program
\* closed, 1000 when the handshake completed.
CodesOf(s) ==
  CASE sock[s] = "open"    -> CloseCodes
    [] sock[s] = "closing" -> {NormalClosure, 1006}
    [] OTHER               -> {1006}

\* useWebSocket.js:27-41, ws.onclose of socket s with event.code = code
onclose(s, code) ==
  /\ UNCHANGED <<jobVars, jobHist, readHist, envVars, outVars>>
  /\ sock[s] \in {"open", "closing", "errored"}
  /\ code \in CodesOf(s)
  /\ sock' = [sock EXCEPT ![s] = "closed"]
  /\ isConnected' = FALSE
  /\ IF ShouldReconnect(code, reconnectAttempts)
       THEN /\ pending' = pending \cup
                  {[id |-> s, delay |-> BackoffDelay(reconnectAttempts)]}
            /\ reconnectTimeout' = s
            /\ delays' = IF torn THEN delays
                          ELSE Append(delays, BackoffDelay(reconnectAttempts))
            /\ lastLoss' = [code |-> code, attempt |-> reconnectAttempts,
                            delay |-> BackoffDelay(reconnectAttempts)]
       ELSE /\ UNCHANGED <<pending, reconnectTimeout, delays>>
            /\ lastLoss' = [code |-> code, attempt |-> reconnectAttempts,
                            delay |-> 0]
  /\ UNCHANGED <<phase, url, ws, reconnectAttempts, error,
                 messages, changes>>

\* The url held by the connect() a retry timer calls: one the constructor
\* accepted when it made the socket whose loss set the timer.
RetryUrl == CHOOSE u \in GoodUrls : TRUE

\* useWebSocket.js:36-39, the retry timer set by socket t.id's onclose fires
TimerFire(t) ==
  /\ UNCHANGED <<jobVars, jobHist, readHist, envVars, outVars>>
  /\ t \in pending
  /\ pending' = pending \ {t}
  /\ reconnectAttempts' = reconnectAttempts + 1
  /\ connect(RetryUrl, sock)
  /\ UNCHANGED <<phase, url, reconnectTimeout, isConnected, messages, histVars>>

NextConn ==
  \/ Mount
  \/ \E u \in Urls : UrlChange(u)
  \/ Unmount
  \/ \E s \in DOMAIN sock : onopen(s)
  \/ \E s \in DOMAIN sock : onerror(s)
  \/ \E s \in DOMAIN sock, code \in CloseCodes : onclose(s, code)
  \/ \E t \in pending : TimerFire(t)

ConnSpec == Init /\ [][NextConn]_vars

\* The hook alone with room for MaxDeepSockets sockets.
DeepInit == InitWith(1..MaxDeepSockets)
DeepSpec == DeepInit /\ [][NextConn]_vars

\* ---------------------------------------------------------- Home, App.js
\* An onmessage that puts the new frame in front of the list.
onmessagePrepends(s, m) ==
  /\ sock[s] = "open"
  /\ Len(messages) < MaxMsgs
  /\ messages' = <<m>> \o messages
  /\ effectDirty' = TRUE
  /\ unread' = TRUE
  /\ skipped' = (skipped \/ unread)
  /\ stale' = FALSE
  /\ UNCHANGED <<phase, url, ws, sock, pending, reconnectTimeout,
                 reconnectAttempts, isConnected, error, histVars,
                 currentJob, jobObject, jobResults, isLoading, inflight, submits,
                 jobHist,
                 envVars, outVars>>

\* useWebSocket.js:23-25, ws.onmessage of socket s delivering the frame m
onmessage(s, m) ==
  /\ sock[s] = "open"
  /\ Len(messages) < MaxMsgs
  /\ messages' = Append(messages, m)
  /\ effectDirty' = TRUE
  /\ unread' = TRUE
  /\ skipped' = (skipped \/ unread)
  /\ stale' = FALSE
  /\ UNCHANGED <<phase, url, ws, sock, pending, reconnectTimeout,
                 reconnectAttempts, isConnected, error, histVars,
                 currentJob, jobObject, jobResults, isLoading, inflight, submits,
                 jobHist,
                 envVars, outVars>>

\* What a caller hands to sendMessage.
Outbound == {"ping", "stop"}

\* A sendMessage that looks only at ws.current, not at its readyState.
sendMessageAnyState(m) ==
  /\ Len(sent) + warned < MaxSends
  /\ IF ws # Null
       THEN /\ sent' = Append(sent, [to |-> ws, data |-> m])
            /\ warned' = warned
       ELSE /\ warned' = warned + 1
            /\ sent' = sent
  /\ UNCHANGED <<connVars, histVars, jobVars, jobHist, readHist, envVars>>

\* useWebSocket.js:69-75, sendMessage(m): ws.send when ws.current is OPEN,
\* console.warn otherwise
sendMessage(m) ==
  /\ Len(sent) + warned < MaxSends
  /\ IF ws # Null /\ sock[ws] = "open"
       THEN /\ sent' = Append(sent, [to |-> ws, data |-> m])
            /\ warned' = warned
       ELSE /\ warned' = warned + 1
            /\ sent' = sent
  /\ UNCHANGED <<connVars, histVars, jobVars, jobHist, readHist, envVars>>

\* useWebSocket.js:77-79, clearMessages(): the list becomes a new empty
\* array, so the effects that depend on it are due again
clearMessages ==
  /\ messages' = <<>>
  /\ effectDirty' = TRUE
  /\ unread' = FALSE
  /\ stale' = FALSE
  /\ UNCHANGED <<phase, url, ws, sock, pending, reconnectTimeout,
                 reconnectAttempts, isConnected, error, histVars,
                 currentJob, jobObject, jobResults, isLoading, inflight, submits,
                 jobHist,
                 skipped, envVars, outVars>>

\* The frames delivered in the specification of the hook alone: the hook
\* stores event.data as it came, whatever it holds.
HookFrames == {Unknown, Garbage}

\* The hook under one url: the connection steps, inbound frames, and the
\* two functions the hook returns to its caller.
NextHook ==
  \/ Mount
  \/ Unmount
  \/ \E s \in DOMAIN sock : onopen(s)
  \/ \E s \in DOMAIN sock : onerror(s)
  \/ \E s \in DOMAIN sock, code \in CloseCodes : onclose(s, code)
  \/ \E t \in pending : TimerFire(t)
  \/ \E s \in DOMAIN sock, m \in HookFrames : onmessage(s, m)
  \/ \E m \in Outbound : sendMessage(m)
  \/ clearMessages

HookInit == InitWith(1..MaxHookSockets)
HookSpec == HookInit /\ [][NextHook]_vars

\* App.js:32
latestMessage == messages[Len(messages)]

\* App.js:35, JSON.parse(latestMessage) followed by `data.type`: text that is
\* not JSON throws a SyntaxError, the value null throws a TypeError on
\* `.type`; both land in the catch of App.js:88-90.
Throws(raw) == raw.syntax # "object"

\* App.js:39 and :68, the guard `currentJob && data.job_id === currentJob.id`
\* with job as the currentJob of the render
Tracks(job, data) == job # NoJob /\ data.job_id = job.id
ForCurrentJob(data) == Tracks(currentJob, data)

\* The updater of progress_update taking the total of the event as it is.
ProgressUpdaterTakesTotal(prev, data) ==
  [prev EXCEPT !.progress = data.progress,
               !.completed = data.completed,
               !.failed = data.failed,
               !.total = data.total]

\* App.js:40-46, the updater of progress_update
ProgressUpdater(prev, data) ==
  [prev EXCEPT !.progress = data.progress,
               !.completed = data.completed,
               !.failed = data.failed,
               !.total = IF Falsy(data.total) THEN prev.total ELSE data.total]

\* The updater of job_complete without the counts of the event.
CompleteUpdaterKeepsCounts(prev, data) ==
  [prev EXCEPT !.status = "completed",
               !.progress = 100,
               !.total = IF Falsy(data.total) THEN prev.total ELSE data.total]

\* App.js:69-76, the updater of job_complete
CompleteUpdater(prev, data) ==
  [prev EXCEPT !.status = "completed",
               !.progress = 100,
               !.completed = data.completed,
               !.failed = data.failed,
               !.total = IF Falsy(data.total) THEN prev.total ELSE data.total]

\* App.js:54, newResults.findIndex(r => r.url === data.url): the first index
\* whose payload carries the event's url, 0 when there is none
FindIndex(results, u) ==
  IF \E i \in 1..Len(results) : results[i].url = u
    THEN CHOOSE i \in 1..Len(results) :
           /\ results[i].url = u
           /\ \A j \in 1..(i - 1) : results[j].url # u
    ELSE 0

\* App.js:52-61, the updater of url_complete
ResultsUpdater(prev, data) ==
  IF FindIndex(prev, data.url) > 0
    THEN [prev EXCEPT ![FindIndex(prev, data.url)] = data.data]
    ELSE Append(prev, data.data)

\* App.js:51, `data.success && data.data`
HasPayload(data) == data.success /\ data.data # NoData

\* The effect with a catch that drops the tracked job.
JobAfterCatchDropsJob(job, raw) ==
  IF Throws(raw) THEN NoJob
  ELSE CASE raw.type = "progress_update" ->
              IF Tracks(job, raw) THEN ProgressUpdater(job, raw) ELSE job
         [] raw.type = "job_complete" ->
              IF Tracks(job, raw) THEN CompleteUpdater(job, raw) ELSE job
         [] OTHER -> job

\* App.js:34-90, what one run of the effect on the raw message makes of the
\* tracked job: the catch and the default branch leave it alone, and so do
\* url_complete and job_error.
JobAfter(job, raw) ==
  IF Throws(raw) THEN job
  ELSE CASE raw.type = "progress_update" ->
              IF Tracks(job, raw) THEN ProgressUpdater(job, raw) ELSE job
         [] raw.type = "job_complete" ->
              IF Tracks(job, raw) THEN CompleteUpdater(job, raw) ELSE job
         [] OTHER -> job

\* The effect writing the result list for every url_complete, whatever its
\* success flag and payload.
ResultsAfterAnyOutcome(results, raw) ==
  IF Throws(raw) THEN results
  ELSE IF raw.type = "url_complete"
    THEN ResultsUpdater(results, raw)
    ELSE results

\* App.js:34-90, what one run of the effect on the raw message makes of the
\* result list: only url_complete (App.js:50-63) writes it, whatever its job_id.
ResultsAfter(results, raw) ==
  IF Throws(raw) THEN results
  ELSE IF raw.type = "url_complete" /\ HasPayload(raw)
    THEN ResultsUpdater(results, raw)
    ELSE results

\* App.js:67 and :82, setIsLoading(false) of job_complete and job_error
LoadingAfter(loading, raw) ==
  IF Throws(raw) THEN loading
  ELSE IF raw.type \in {"job_complete", "job_error"} THEN FALSE ELSE loading

\* App.js:40 and :69: the run called setCurrentJob
SetsCurrentJob(job, raw) ==
  /\ ~Throws(raw)
  /\ raw.type \in {"progress_update", "job_complete"}
  /\ Tracks(job, raw)

\* App.js:30-92, one run of the message effect (deps [messages, currentJob]).
\* A run that calls setCurrentJob replaces the job object, so the effect is
\* due again after the next render.
MessageEffect ==
  /\ effectDirty
  /\ IF Len(messages) = 0
       THEN /\ effectDirty' = FALSE
            /\ UNCHANGED <<currentJob, jobObject, jobResults, isLoading,
                           jobHist, unread>>
            /\ skipped' = FALSE
            /\ stale' = FALSE
       ELSE /\ currentJob' = JobAfter(currentJob, latestMessage)
            /\ jobObject' = IF SetsCurrentJob(currentJob, latestMessage)
                               THEN 1 - jobObject
                               ELSE jobObject
            /\ jobResults' = ResultsAfter(jobResults, latestMessage)
            /\ isLoading' = LoadingAfter(isLoading, latestMessage)
            /\ effectDirty' = SetsCurrentJob(currentJob, latestMessage)
            /\ lastApplied' = latestMessage
            /\ unread' = FALSE
            /\ skipped' = FALSE
            /\ stale' = FALSE
            /\ wiped' = wiped
            /\ lastFor' = IF ~Throws(latestMessage)
                               /\ latestMessage.type = "url_complete"
                               /\ HasPayload(latestMessage)
                            THEN [lastFor EXCEPT ![latestMessage.url] = latestMessage.data]
                            ELSE lastFor
  /\ UNCHANGED <<connVars, histVars, inflight, submits, envVars, outVars>>

\* App.js:94-102 and :130-143, a submit handler up to its await.  The forms
\* disable their submit button while isLoading (BulkUpload.js:212, :719).
Submit(kind) ==
  /\ ~isLoading
  /\ submits < MaxSubmits
  /\ submits' = submits + 1
  /\ isLoading' = TRUE
  /\ jobResults' = <<>>
  /\ inflight' = inflight \cup {[kind |-> kind, n |-> submits + 1]}
  /\ lastApplied' = NoMsg
  /\ lastFor' = [k \in Keys |-> NoData]
  /\ wiped' = IF currentJob # NoJob /\ jobResults # <<>>
                 THEN wiped \cup {submits + 1}
                 ELSE wiped
  /\ UNCHANGED <<connVars, histVars, currentJob, jobObject, effectDirty,
                 readHist, envVars, outVars>>

\* App.js:105-113 and :146-154, the job object of a started submission
jobData(r) ==
  [id |-> JobNames[r.n], type |-> r.kind, status |-> "started", progress |-> 0,
   completed |-> 0, failed |-> 0, total |-> IF r.kind = "single" THEN 1 ELSE 0]

\* App.js:104-127 and :145-167, the handler after the await, answered with
\* status "started".  pollJobStatus is defined nowhere: the call of :118/:158
\* throws a ReferenceError after setCurrentJob, and the catch resets isLoading.
ResponseStarted(r) ==
  /\ r \in inflight
  /\ inflight' = inflight \ {r}
  /\ currentJob' = jobData(r)
  /\ jobObject' = 1 - jobObject
  /\ effectDirty' = TRUE
  /\ isLoading' = FALSE
  /\ stale' = (Len(messages) > 0)
  /\ wiped' = wiped \ {r.n}
  /\ UNCHANGED <<connVars, histVars, jobResults, submits, lastApplied, lastFor,
                 unread, skipped, envVars, outVars>>

\* App.js:119-122 / :123-127 and :159-162 / :163-167: another status, or the
\* request failed
ResponseOther(r) ==
  /\ r \in inflight
  /\ inflight' = inflight \ {r}
  /\ isLoading' = FALSE
  /\ wiped' = wiped \ {r.n}
  /\ UNCHANGED <<connVars, histVars, currentJob, jobObject, jobResults, effectDirty,
                 submits, lastApplied, lastFor, readHist, envVars, outVars>>

NextJob ==
  \/ Mount
  \/ \E s \in SockIds : onopen(s)
  \/ \E s \in SockIds, m \in Inbound : onmessage(s, m)
  \/ MessageEffect
  \/ \E kind \in {"single", "bulk"} : Submit(kind)
  \/ \E r \in inflight : ResponseStarted(r)
  \/ \E r \in inflight : ResponseOther(r)

JobSpec == Init /\ [][NextJob]_vars

\* The same component fed with one frame of each behaviour: a progress_update,
\* a url_complete with a payload, job_complete with and without a total, and
\* the three frames the decoder rejects.
CoreFrames ==
  {PU("J1", 40, 2, 0, Absent), UC("J1", TRUE, "a.com", [url |-> "a.com", v |-> "v1"])}
    \cup CompleteFrames \cup {Unknown, JsonNull, Garbage}

NextCore ==
  \/ Mount
  \/ \E s \in SockIds : onopen(s)
  \/ \E s \in SockIds, m \in CoreFrames : onmessage(s, m)
  \/ MessageEffect
  \/ \E kind \in {"single", "bulk"} : Submit(kind)
  \/ \E r \in inflight : ResponseStarted(r)
  \/ \E r \in inflight : ResponseOther(r)

CoreSpec == Init /\ [][NextCore]_vars

\* The same component fed with the frames that write the counts of the job:
\* progress_update without a total, with a total and with total 0, and
\* job_complete with and without a total.
TotalFrames ==
  ProgressFrames \cup {PU("J1", 50, 3, 0, 0)} \cup CompleteFrames

NextTotal ==
  \/ Mount
  \/ \E s \in SockIds : onopen(s)
  \/ \E s \in SockIds, m \in TotalFrames : onmessage(s, m)
  \/ MessageEffect
  \/ \E kind \in {"single", "bulk"} : Submit(kind)
  \/ \E r \in inflight : ResponseStarted(r)
  \/ \E r \in inflight : ResponseOther(r)

TotalSpec == Init /\ [][NextTotal]_vars

\* The same steps under the fairness React and HTTP give: a due effect runs
\* after the render that made it due, and a request ends with a response or
\* an error.  No further frame or submission is ever obliged to come.
FairTotalSpec ==
  /\ Init
  /\ [][NextTotal]_vars
  /\ WF_vars(MessageEffect)
  /\ WF_vars(\E r \in inflight : ResponseStarted(r) \/ ResponseOther(r))

\* The same component fed with url_complete frames: two items that
\* succeeded, one that failed (its payload differs from the one stored for
\* the same url), and one with `data: null`.
ItemFrames ==
  {UC("J1", TRUE, "a.com", [url |-> "a.com", v |-> "v1"]),
   UC("J1", TRUE, "b.com", [url |-> "b.com", v |-> "v1"]),
   UC("J1", FALSE, "a.com", [url |-> "a.com", v |-> "v2"]),
   UC("J1", TRUE, "a.com", NoData)}

NextItem ==
  \/ Mount
  \/ \E s \in SockIds : onopen(s)
  \/ \E s \in SockIds, m \in ItemFrames : onmessage(s, m)
  \/ MessageEffect
  \/ \E kind \in {"single", "bulk"} : Submit(kind)
  \/ \E r \in inflight : ResponseStarted(r)
  \/ \E r \in inflight : ResponseOther(r)

ItemSpec == Init /\ [][NextItem]_vars

\* The back end finishes the tracked job j and the transport drops the
\* job_complete push: from now on only the status endpoint tells.  The
\* fallback of App.js:117-118 and :157-158 is the call of pollJobStatus,
\* which throws (see ResponseStarted): no request to the status endpoint is
\* ever made, so the program has no step that reads lostComplete.
DropJobComplete(j) ==
  /\ currentJob # NoJob
  /\ currentJob.id = j
  /\ currentJob.status = "started"
  /\ j \notin lostComplete
  /\ lostComplete' = lostComplete \cup {j}
  /\ UNCHANGED <<connVars, histVars, jobVars, jobHist, readHist, outVars>>

NextPoll ==
  \/ NextJob
  \/ \E j \in {JobNames[n] : n \in 1..MaxSubmits} : DropJobComplete(j)

\* Fairness: React runs a due effect after the render, and an HTTP request
\* ends with a response or an error.  Nothing obliges the network to deliver
\* another frame.
PollSpec ==
  /\ Init
  /\ [][NextPoll]_vars
  /\ WF_vars(MessageEffect)
  /\ WF_vars(\E r \in inflight : ResponseStarted(r) \/ ResponseOther(r))

Next == NextConn \/ NextPoll

Spec == Init /\ [][Next]_vars

\* ================================================================ claims
Terminal == {"completed", "failed"}
\* The message effect runs on a frame that parsed to an object of type ty.
Applies(ty) ==
  /\ MessageEffect
  /\ Len(messages) > 0
  /\ ~Throws(latestMessage)
  /\ latestMessage.type = ty

\* C1: once the tracked job is completed or failed, a progress_update or a
\* url_complete applied afterwards leaves its status, progress, completed and
\* failed as they were.
C1_StickyTerminal ==
  [][ ((Applies("progress_update") \/ Applies("url_complete"))
         /\ currentJob.status \in Terminal)
      => /\ currentJob'.status = currentJob.status
         /\ currentJob'.progress = currentJob.progress
         /\ currentJob'.completed = currentJob.completed
         /\ currentJob'.failed = currentJob.failed ]_vars

\* C2: an event of any of the four kinds whose job_id is not the tracked
\* job's id, or that arrives while no job is tracked, changes neither the
\* tracked job nor the result list.
C2_StaleJobGuard ==
  [][ ((Applies("progress_update") \/ Applies("url_complete")
          \/ Applies("job_complete") \/ Applies("job_error"))
         /\ ~ForCurrentJob(latestMessage))
      => /\ currentJob' = currentJob
         /\ jobResults' = jobResults ]_vars

BackoffSchedule == <<1000, 2000, 4000, 8000, 16000>>

C4_ManualCloseNoRetry ==
  [][ \A s \in SockIds :
        (sock[s] # "closed" /\ sock'[s] = "closed") =>
          LET l == lastLoss' IN
            IF l.code = 1000
              THEN pending' = pending /\ reconnectTimeout' = reconnectTimeout
              ELSE IF l.attempt < 5
                THEN /\ pending' = pending \cup
                           {[id |-> s, delay |-> Pow2(l.attempt) * 1000]}
                     /\ reconnectTimeout' = s
                ELSE pending' = pending /\ reconnectTimeout' = reconnectTimeout ]_vars

\* A close with code 1000 was handled while the counter was above 0 and
\* below the ceiling, and nothing was scheduled.
C4_Witness ==
  /\ lastLoss.code = NormalClosure
  /\ lastLoss.attempt > 0
  /\ lastLoss.attempt < maxReconnectAttempts
  /\ lastLoss.delay = 0
  /\ pending = {}

\* C5: after the hook's teardown no retry timer is pending and no new
\* connection attempt is under way, whatever close code the channel reports.
C5_NoRetryAfterTeardown ==
  phase = "unmounted" =>
    /\ pending = {}
    /\ \A s \in SockIds : sock[s] # "connecting"

\* C6: at most one underlying socket is live (connecting or open).
C6_OneLiveSocket ==
  Cardinality({s \in SockIds : sock[s] \in Live}) <= 1

\* C7: at most one retry timer is pending, and reconnectTimeout.current is
\* the handle of it.
C7_SingleRetryTimer ==
  /\ Cardinality(pending) <= 1
  /\ \A t \in pending : t.id = reconnectTimeout

\* C8: a successful url_complete applied a second time (the effect's previous
\* run on this result list handled the very same frame) leaves the result
\* list as the first application left it.
C8_IdempotentUpsert ==
  [][ (Applies("url_complete")
         /\ HasPayload(latestMessage)
         /\ lastApplied = latestMessage)
      => jobResults' = jobResults ]_vars

\* C9: the result list holds exactly one entry for each item key (the
\* event's url) that a successful url_complete was applied for, and that
\* entry is the payload of the last such event for the key.
C9_UniqueKeyLastWriteWins ==
  /\ Len(jobResults) = Cardinality({k \in Keys : lastFor[k] # NoData})
  /\ \A k \in Keys :
       lastFor[k] # NoData => \E i \in 1..Len(jobResults) : jobResults[i] = lastFor[k]

\* C10: a progress_update for the tracked job whose completed + failed is not
\* below the job's current completed + failed never lowers the job's progress
\* while the status is not failed.
C10_MonotonicProgress ==
  [][ (Applies("progress_update")
         /\ ForCurrentJob(latestMessage)
         /\ currentJob.status # "failed"
         /\ latestMessage.completed + latestMessage.failed
              >= currentJob.completed + currentJob.failed)
      => currentJob'.progress >= currentJob.progress ]_vars

\* C11: applying job_complete for the tracked job sets status to completed
\* and progress to 100 and takes completed and failed from the event,
\* whatever counts were held before; total is taken from the event when the
\* event carries one (the field is optional) and is kept otherwise.  The id
\* and the type of the job stay.
C11_JobCompleteAuthoritative ==
  [][ (Applies("job_complete") /\ ForCurrentJob(latestMessage))
      => /\ currentJob'.status = "completed"
         /\ currentJob'.progress = 100
         /\ currentJob'.completed = latestMessage.completed
         /\ currentJob'.failed = latestMessage.failed
         /\ currentJob'.total = IF Falsy(latestMessage.total)
                                  THEN currentJob.total
                                  ELSE latestMessage.total
         /\ currentJob'.id = currentJob.id
         /\ currentJob'.type = currentJob.type ]_vars

\* progress 40 / completed 2 was received, then job_complete{5, 1, 6} was
\* applied to the single-url job (total 1 until then).
C11_Witness ==
  /\ messages = <<PU("J1", 40, 2, 0, Absent), JC("J1", 5, 1, 6)>>
  /\ lastApplied = JC("J1", 5, 1, 6)
  /\ currentJob = [id |-> "J1", type |-> "single", status |-> "completed",
                   progress |-> 100, completed |-> 5, failed |-> 1, total |-> 6]

\* C12: applying a job_error for the tracked job sets the job's status to
\* failed.
C12_JobErrorFails ==
  [][ (Applies("job_error") /\ ForCurrentJob(latestMessage))
      => currentJob'.status = "failed" ]_vars

\* C13: when the job_complete push of the tracked job was dropped and the
\* status endpoint reports the job completed, the tracked job eventually has
\* a terminal status (or another job has taken its place).
C13_PollFallback ==
  \A j \in {JobNames[n] : n \in 1..MaxSubmits} :
    (currentJob.id = j /\ j \in lostComplete)
      ~> (currentJob.id # j \/ currentJob.status \in Terminal)

\* The outcome of applying the frames of seq in order, one run of the effect
\* each, from the job and the result list given: the job, and the keys the
\* result list holds.
RECURSIVE Outcome(_, _, _)
Outcome(job, results, seq) ==
  IF seq = <<>>
    THEN <<job, {results[i].url : i \in 1..Len(results)}>>
    ELSE Outcome(JobAfter(job, Head(seq)), ResultsAfter(results, Head(seq)), Tail(seq))

\* C14: for two events of the tracked job, one of them its terminal event,
\* both orders of application end in the same job (status, progress,
\* completed, failed, total) and the same keys of the result list.
C14_Convergence ==
  currentJob # NoJob =>
    \A a \in CompleteFrames \cup ErrorFrames, b \in Inbound :
      (Tracks(currentJob, a) /\ ~Throws(b) /\ b.type # "ping" /\ Tracks(currentJob, b))
        => Outcome(currentJob, jobResults, <<a, b>>)
             = Outcome(currentJob, jobResults, <<b, a>>)

\* C15: no received message is skipped: when the message effect runs, no
\* message received since its previous run lies unread behind a later one
\* (the run reads the last position of the list only, so it can never
\* return to such a message).
C15_NoSkip ==
  [][ (MessageEffect /\ Len(messages) > 0) => ~skipped ]_vars

\* A frame the decoder rejects: text that is not JSON, JSON that is not an
\* object, or an object whose type is none of the four.
DecodeFailure(raw) ==
  \/ Throws(raw)
  \/ raw.type \notin {"progress_update", "url_complete", "job_complete", "job_error"}

\* C16: a run of the effect on a frame the decoder rejects changes neither
\* the tracked job nor the result list (nor the loading flag) and ends
\* normally; a run on a valid frame that follows a rejected one applies it:
\* a progress_update or job_complete of the tracked job sets its counts, a
\* url_complete with a payload puts the payload into the result list.
C16_DecodeFailureIsolated ==
  [][ (MessageEffect /\ Len(messages) > 0) =>
        LET m == latestMessage IN
          /\ DecodeFailure(m) =>
                /\ currentJob' = currentJob
                /\ jobResults' = jobResults
                /\ isLoading' = isLoading
                /\ ~effectDirty'
          /\ (Len(messages) > 1 /\ DecodeFailure(messages[Len(messages) - 1])
                /\ ~DecodeFailure(m)) =>
                /\ (m.type = "progress_update" /\ ForCurrentJob(m)) =>
                      /\ currentJob'.progress = m.progress
                      /\ currentJob'.completed = m.completed
                      /\ currentJob'.failed = m.failed
                /\ (m.type = "job_complete" /\ ForCurrentJob(m)) =>
                      /\ currentJob'.status = "completed"
                      /\ currentJob'.completed = m.completed
                /\ (m.type = "url_complete" /\ HasPayload(m)) =>
                      \E i \in 1..Len(jobResults') : jobResults'[i] = m.data ]_vars

\* The effect ran on text that is not JSON, and then applied the
\* progress_update of the tracked job that followed it.
C16_Witness ==
  /\ messages = <<Garbage, PU("J1", 40, 2, 0, Absent)>>
  /\ ~unread
  /\ currentJob.id = "J1"
  /\ currentJob.status = "started"
  /\ currentJob.progress = 40
  /\ currentJob.completed = 2

\* C17: the step that begins to track a new job leaves the new job's
\* initial state and an empty result list, and a run of the effect that
\* follows it on a message that was received before it changes neither the
\* tracked job nor the result list.
C17_StartJobReplaces ==
  [][ /\ (\E r \in inflight : ResponseStarted(r)) =>
           /\ currentJob'.status = "started"
           /\ currentJob'.progress = 0
           /\ jobResults' = <<>>
      /\ (MessageEffect /\ currentJob # NoJob
            /\ Len(messages) > 0 /\ stale) =>
           /\ currentJob' = currentJob
           /\ jobResults' = jobResults ]_vars

\* C18: a submission that is answered with another status than "started",
\* or that fails, leaves the tracked job and the result list as they were:
\* neither the handler's part before the request nor its part after the
\* answer changes them.
C18_OnlyStartedTracks ==
  [][ \A r \in inflight :
        ResponseOther(r) =>
          /\ r.n \notin wiped
          /\ currentJob' = currentJob
          /\ jobResults' = jobResults ]_vars

\* A step in which `new WebSocket(url)` throws: the [url] effect runs with
\* the malformed url.
SyncFailure == (Mount /\ url = BadUrl) \/ UrlChange(BadUrl)

\* Socket s delivers a close event whose code is not 1000, read with the
\* counter in the set at.
Loss(s, at) ==
  /\ sock[s] # "closed"
  /\ sock'[s] = "closed"
  /\ lastLoss'.code # NormalClosure
  /\ lastLoss'.attempt \in at

\* C19: a failed connection attempt takes the loss path whichever way it
\* fails: when the constructor throws, the error is recorded and, with the
\* counter below 5, a retry timer is set; when the channel drops with a
\* code other than 1000 and the counter below 5, the connection is marked
\* down and a retry timer is set.
C19_SameLossPath ==
  [][ /\ (SyncFailure /\ reconnectAttempts < maxReconnectAttempts) =>
           /\ error' # ""
           /\ \E t \in pending' : t \notin pending
      /\ \A s \in SockIds :
           Loss(s, 0..(maxReconnectAttempts - 1)) =>
             /\ ~isConnected'
             /\ \E t \in pending' : t \notin pending ]_vars

\* C20: a loss with a code other than 1000 and the counter at 5 or more
\* sets no retry timer and surfaces a terminal error: afterwards the error
\* is set and what the consumer sees (isConnected, error) differs from what
\* it saw before the loss, while the retry was in progress.
C20_CeilingSurfacesError ==
  [][ \A s \in SockIds :
        Loss(s, {n \in 0..(maxReconnectAttempts + MaxSockets) : n >= maxReconnectAttempts}) =>
          /\ pending' = pending
          /\ error' # ""
          /\ <<isConnected', error'>> # <<isConnected, error>> ]_vars

\* C21: a fresh open request made after the retry ceiling was reached (the
\* [url] effect connects to a new well-formed address with the counter at 5
\* or more) restarts from attempt 0, so that a loss of the new attempt is
\* retried after 1000 ms.
C21_FreshOpenRestarts ==
  [][ ((\E u \in GoodUrls : UrlChange(u)) /\ reconnectAttempts >= maxReconnectAttempts)
      => reconnectAttempts' = 0 ]_vars

\* C22: in every step the retry counter stays, or grows by one in a step in
\* which a retry timer fires, or becomes 0 in a step in which a connecting
\* socket opens; no other step changes it.
C22_ResetOnlyOnOpen ==
  [][ \/ reconnectAttempts' = reconnectAttempts
      \/ /\ reconnectAttempts' = reconnectAttempts + 1
         /\ \E t \in pending : pending' = pending \ {t}
      \/ /\ reconnectAttempts' = 0
         /\ isConnected'
         /\ \E s \in DOMAIN sock : sock[s] = "connecting" /\ sock'[s] = "open" ]_vars

\* A retry was lost with the counter above 0, and the counter is 0 again
\* with the current socket open: the open reset it.
C22_Witness ==
  /\ lastLoss.attempt > 0
  /\ reconnectAttempts = 0
  /\ isConnected
  /\ ws # Null
  /\ sock[ws] = "open"

\* C23: in the state right after a socket opened, the connection is marked
\* connected, the retry counter is 0, the recorded error is cleared and no
\* retry timer is pending.
C23_AfterOpen ==
  [][ \A s \in DOMAIN sock :
        (sock[s] = "connecting" /\ sock'[s] = "open") =>
          /\ isConnected'
          /\ reconnectAttempts' = 0
          /\ error' = ""
          /\ pending' = {} ]_vars

\* C24: a call of sendMessage hands the message to the socket in ws.current
\* exactly when that socket is open; a call made in any other state sends
\* nothing and leaves the connection flag, the retry counter, the pending
\* timers, the error and the inbound list as they were.
C24_SendIffOpen ==
  [][ (sent' # sent \/ warned' # warned) =>
        /\ (sent' # sent) <=> (ws # Null /\ sock[ws] = "open")
        /\ (sent' # sent) =>
             \E m \in Outbound : sent' = Append(sent, [to |-> ws, data |-> m])
        /\ (sent' = sent) =>
             UNCHANGED <<isConnected, reconnectAttempts, pending,
                         reconnectTimeout, error, messages, ws, sock>> ]_vars

\* One call went out on an open socket and a later one was refused while
\* the hook waited on a retry with messages in its list.
C24_Witness ==
  /\ Len(sent) > 0
  /\ warned > 0
  /\ pending # {}
  /\ Len(messages) > 0
  /\ sock[ws] = "closed"

\* p is a prefix of q.
IsPrefix(p, q) == Len(p) <= Len(q) /\ SubSeq(q, 1, Len(p)) = p

\* C25: the inbound list is append-only: every step that is not a call of
\* clearMessages leaves the old list as a prefix of the new one, and a call
\* of clearMessages leaves it empty.
C25_AppendOnly ==
  [][ /\ clearMessages => messages' = <<>>
      /\ ~clearMessages => IsPrefix(messages, messages') ]_vars

\* Two different frames are in the list, in the order they came, after the
\* first socket was lost and a retry opened the second.
C25_Witness ==
  /\ Len(messages) = 2
  /\ messages[1] # messages[2]
  /\ sock[1] = "closed"
  /\ ws = 2
  /\ sock[2] = "open"

\* C26: a progress_update applied to the tracked job sets total to the total
\* of the event when the event carries one (a missing or zero total is none)
\* and keeps the previous total otherwise; no progress_update or
\* job_complete turns a total that is known into one that is not.
C26_TotalNeverRegresses ==
  [][ /\ (Applies("progress_update") /\ ForCurrentJob(latestMessage))
          => currentJob'.total = IF Falsy(latestMessage.total)
                                   THEN currentJob.total
                                   ELSE latestMessage.total
      /\ ((Applies("progress_update") \/ Applies("job_complete"))
            /\ ~Falsy(currentJob.total))
          => ~Falsy(currentJob'.total) ]_vars

\* The bulk job (total unknown at the start) took total 6 from one
\* progress_update and kept it through the next, which carried none.
C26_Witness ==
  /\ messages = <<PU("J1", 30, 3, 0, 6), PU("J1", 40, 2, 0, Absent)>>
  /\ lastApplied = PU("J1", 40, 2, 0, Absent)
  /\ currentJob = [id |-> "J1", type |-> "bulk", status |-> "started",
                   progress |-> 40, completed |-> 2, failed |-> 0, total |-> 6]

\* C27: whenever a job is tracked and its total is known, the completed and
\* failed counts together do not exceed the total.
C27_CountsWithinTotal ==
  (currentJob # NoJob /\ ~Falsy(currentJob.total))
    => currentJob.completed + currentJob.failed <= currentJob.total

\* C28: applying a url_complete whose success flag is false, or which has no
\* payload, leaves the result list exactly as it was.
C28_FailedItemNoWrite ==
  [][ (Applies("url_complete") /\ ~HasPayload(latestMessage))
        => jobResults' = jobResults ]_vars

\* The result list holds the payload of a.com, and the effect has just run
\* on the url_complete that reported a.com as failed.
C28_Witness ==
  /\ currentJob # NoJob
  /\ messages = <<UC("J1", TRUE, "a.com", [url |-> "a.com", v |-> "v1"]),
                  UC("J1", FALSE, "a.com", [url |-> "a.com", v |-> "v2"])>>
  /\ lastApplied = UC("J1", FALSE, "a.com", [url |-> "a.com", v |-> "v2"])
  /\ jobResults = <<[url |-> "a.com", v |-> "v1"]>>

\* C29: message handling quiesces: from some point on the message effect is
\* not due any more, so no further state update is made.
C29_Quiesces == <>[](~effectDirty)

\* C30: the retry counter is within 0..5 in every reachable state.
C30_AttemptsInRange ==
  reconnectAttempts \in 0..maxReconnectAttempts

\* The socket in ws.current has left OPEN and its close event is still to be
\* delivered.
CloseInFlight == ws # Null /\ sock[ws] \in {"closing", "errored"}

\* C31: isConnected is true exactly when the socket in ws.current is open.
\* The states between a socket leaving OPEN and the delivery of its close
\* event are left out.
C31_FlagMatchesSocket ==
  ~CloseInFlight => (isConnected <=> (ws # Null /\ sock[ws] = "open"))

\* C32: the handling of a response with status "started" makes its job the
\* tracked one and leaves the loading flag true (the failure path, which
\* resets the flag, is not taken by that submission).
C32_StartedTakesSuccessPath ==
  [][ \A r \in inflight :
        ResponseStarted(r) =>
          /\ currentJob' = jobData(r)
          /\ isLoading' ]_vars

====
